---- MODULE Spec2Model ----
(***************************************************************************)
(* A model of canary/MeasureTransferRate.cpp: PerformMeasurement (the      *)
(* bounded-concurrency issuance loop with its condition-variable gate and  *)
(* the coordinator/worker exchange) and the self-rescheduling metrics      *)
(* pulse task.                                                             *)
(*                                                                         *)
(* Process 0 is the main process (standalone, or the coordinator of a      *)
(* multi-process run); process c + 1 is the child process whose            *)
(* childProcessIndex is c.                                                 *)
(***************************************************************************)
EXTENDS Integers, Sequences, FiniteSets, TLC

\* ---------------------------------------------------------------- bounds
\* Largest numTransfers of a standalone run.
MaxTransfers == 3
\* Largest numConcurrentTransfers.
MaxConcurrent == 2
\* Largest number of child processes of a multi-process run.
MaxWorkers == 2
\* Largest numTransfers of one child process.
MaxWorkerTransfers == 1
\* Small stand-in for INT64_MAX (the value the key counter starts from and
\* wraps to), so that a run can reach the wrap.
SuffixMax == 3
\* Largest numTransfers of each worker where the workers' keys are compared
\* (at most MaxTransfers).
MaxKeyTransfers == 2
\* Largest numTransfers of a run of MeasureHttpTransfer.
MaxHttpTransfers == 2
\* Largest numTransfers of a run checked together with the pulse task.
MaxPulseTransfers == 1
\* Number of clock advances the scheduling context's clock is followed for.
MaxTicks == 4
\* Milliseconds the clock advances by in one step.
TickMs == 2500
\* Largest numUpTransfers and numDownTransfers of a process whose upload and
\* download measurements are followed one after the other.
MaxPhaseTransfers == 1

\* ------------------------------------------------------------- constants
\* AllocationMetricFrequency, in milliseconds. The clock of the scheduling
\* context is kept in milliseconds (AllocationMetricFrequencyNS is this
\* value converted to nanoseconds, and the clock it is added to is in
\* nanoseconds as well).
AllocationMetricFrequency == 5000

INT64_MAX == SuffixMax
\* counter is a uint64_t: 2^64 = 2 * (INT64_MAX + 1).
Uint64Mod == 2 * (INT64_MAX + 1)
\* Stand-in for the value an unsigned 32-bit counter wraps to below zero
\* (2^32 - 1 is beyond the integers of the model checker).
UINT32_WRAPPED == 2147483646 + 1

AWS_ERROR_SUCCESS == 0
AWS_ERROR_UNKNOWN == 3
\* The outcomes a completion can carry: success, or some error.
ErrorCodes == {AWS_ERROR_SUCCESS, AWS_ERROR_UNKNOWN}
NoError == -1

RUN_READY == "AWS_TASK_STATUS_RUN_READY"
CANCELED == "AWS_TASK_STATUS_CANCELED"

\* The three call sites of PerformMeasurement, named by their keyPrefix.
HttpDown == "httpTransferDown-"
ObjectUp == "singlePartObjectUp-"
ObjectDown == "singlePartObjectDown-"
KeyPrefixes == {HttpDown, ObjectUp, ObjectDown}

Procs == 0..MaxWorkers
MaxIdx == IF MaxTransfers > MaxWorkerTransfers THEN MaxTransfers ELSE MaxWorkerTransfers
TransferIds == 0..(MaxIdx - 1)

VARIABLES
    options,        \* per process: the CanaryApp options PerformMeasurement reads
    keyPrefix,      \* per process: the call site of its PerformMeasurement call
    pc,             \* per process: position of the thread that calls PerformMeasurement
    i,              \* per process: the loop variable i
    counter,        \* per process: the key suffix counter
    numInProgress,  \* per process: std::atomic<uint32_t> numInProgress
    numCompleted,   \* per process: std::atomic<uint32_t> numCompleted
    xfer,           \* per process and transfer index: position of the completion callback
    errorCode,      \* per process and transfer index: the outcome delivered
    issued,         \* per process: indices the transfer function was invoked with, in order
    keys,           \* per process: key suffixes handed to the transfer function, in order
    transport,      \* per process: calls received by the transport
    ipcLog,         \* per process: its channel operations, in order
    toChild,        \* per child index: values written to that child and not yet read
    toParent,       \* per child index: values written by that child and not yet read
    now,            \* clock of the scheduling context (ms)
    taskQueue,      \* per process: run times at which m_pulseMetricsTask is scheduled
    pulsePc,        \* per process: position of a running s_PulseMetricsTask invocation
    dataPoints,     \* per process: metrics added to the publisher by the pulse task
    ticks,          \* clock advances so far
    record,         \* per process and transfer index: the TransferState of the transfer
    notifier        \* per process and transfer index: the callbacks that invoked
                    \* notifyTransferFinished, in order

gateVars == <<pc, i, counter, numInProgress, numCompleted, xfer, errorCode, issued, keys>>
ipcVars == <<transport, ipcLog, toChild, toParent>>
pulseVars == <<now, taskQueue, pulsePc, dataPoints, ticks>>
recordVars == <<record, notifier>>
vars == <<options, keyPrefix, gateVars, ipcVars, pulseVars, recordVars>>

\* ---------------------------------------------------------------- helpers
NoSuffix == "none"
NoAddress == <<>>

\* flags passed by each call site.
NoFileSuffix(prefix) == prefix \in {HttpDown, ObjectDown}
DontWarmDNSCache(prefix) == prefix = HttpDown
\* MeasureHttpTransfer passes nullptr as the transport.
TransportIsNull(prefix) == prefix = HttpDown

addressKey(p) == keyPrefix[p] \o "address"
finishedKey(p) == keyPrefix[p] \o "finished"

isParentProcess(p) == options[p].isParentProcess
isChildProcess(p) == options[p].isChildProcess
numTransfers(p) == options[p].numTransfers
numConcurrentTransfers(p) == options[p].numConcurrentTransfers

Running(p) == pc[p] # "absent"

\* transport->GetAddressForTransfer(i): one address per transfer index.
GetAddressForTransfer(idx) == <<"address", idx>>

\* Lines 65 and 70: transfer index i is exchanged with child process i.
\* (mutant) every index is exchanged with the first child.
ChildForTransferAlwaysFirst(idx) == IF idx > 0 THEN 0 ELSE idx
ChildForTransfer(idx) == idx

\* A call through the transport pointer: with a null transport it is
\* undefined behaviour, which either crashes the process or carries on.
AfterTransportCall(p, next) ==
    IF TransportIsNull(keyPrefix[p]) THEN {next, "crashed"} ELSE {next}

\* First message under `key` in channel queue q (0 when there is none).
RECURSIVE FirstWithKey(_, _, _)
FirstWithKey(q, key, k) ==
    IF k > Len(q) THEN 0
    ELSE IF q[k].key = key THEN k
    ELSE FirstWithKey(q, key, k + 1)

RemoveAt(q, k) == SubSeq(q, 1, k - 1) \o SubSeq(q, k + 1, Len(q))

\* ------------------------------------------------------------------- Init
AbsentOptions ==
    [isParentProcess |-> FALSE, isChildProcess |-> FALSE, childProcessIndex |-> 0,
     numTransfers |-> 0, numConcurrentTransfers |-> 1]

\* Options of a standalone run: process 0 alone.
StandaloneOptions(maxN, maxIndex, maxC) ==
    { [p \in Procs |->
          IF p = 0
          THEN [isParentProcess |-> FALSE, isChildProcess |-> FALSE,
                childProcessIndex |-> idx, numTransfers |-> n,
                numConcurrentTransfers |-> c]
          ELSE AbsentOptions] :
      idx \in 0..maxIndex, n \in 0..maxN, c \in 1..maxC }

\* Options of a multi-process run: the coordinator with n transfers and the
\* n child processes 0..n-1, each of which runs w transfers of its own.
MultiProcessOptions(maxChildren, maxW, maxC) ==
    { [p \in Procs |->
          IF p = 0
          THEN [isParentProcess |-> TRUE, isChildProcess |-> FALSE,
                childProcessIndex |-> 0, numTransfers |-> n,
                numConcurrentTransfers |-> c]
          ELSE IF p <= n
          THEN [isParentProcess |-> FALSE, isChildProcess |-> TRUE,
                childProcessIndex |-> p - 1, numTransfers |-> w,
                numConcurrentTransfers |-> c]
          ELSE AbsentOptions] :
      n \in 1..maxChildren, w \in 0..maxW, c \in 1..maxC }

IsPresent(opts, p) == p = 0 \/ opts[p].isChildProcess

\* A TransferState as its constructor leaves it: the success flag not yet
\* set, nothing flushed.
NewTransferState == [flag |-> "pending", sets |-> 0, flushes |-> 0]
NoTransferState == [flag |-> "none", sets |-> 0, flushes |-> 0]

\* Lines 311-317 and 358-364: MeasureSinglePartObjectTransfer creates one
\* TransferState per transfer index before it calls PerformMeasurement, in
\* every role; MeasureHttpTransfer creates none ahead of the transfers.
HasRecordVector(opts, prefixes, p, t) ==
    /\ IsPresent(opts, p)
    /\ prefixes[p] \in {ObjectUp, ObjectDown}
    /\ t < opts[p].numTransfers

\* (mutant) the task is scheduled for the current clock, without the interval.
SchedulePulseMetricsAtClock(queue, clock) == Append(queue, clock)

\* (mutant) the task is handed to the scheduler twice.
SchedulePulseMetricsTwice(queue, clock) ==
    Append(Append(queue, clock + AllocationMetricFrequency),
           clock + AllocationMetricFrequency)

\* Lines 412-418: the task is scheduled for now + the interval.
SchedulePulseMetrics(queue, clock) == Append(queue, clock + AllocationMetricFrequency)

\* (mutant) the constructor schedules the pulse in every process.
SchedulesAtConstructionAlways(opts, p) == IsPresent(opts, p)

\* Lines 34-37: the constructor schedules the first pulse unless the process
\* is a child process.
SchedulesAtConstruction(opts, p) == IsPresent(opts, p) /\ ~opts[p].isChildProcess

\* The state after the MeasureTransferRate constructor has run in every
\* process and PerformMeasurement is about to be called.
InitWith(optionSets, prefixes) ==
    /\ options \in optionSets
    /\ \E prefix \in prefixes : keyPrefix = [p \in Procs |-> prefix]
    /\ pc = [p \in Procs |-> IF IsPresent(options, p) THEN "start" ELSE "absent"]
    /\ i = [p \in Procs |-> 0]
    /\ counter = [p \in Procs |-> 0]
    /\ numInProgress = [p \in Procs |-> 0]
    /\ numCompleted = [p \in Procs |-> 0]
    /\ xfer = [p \in Procs |-> [t \in TransferIds |-> "none"]]
    /\ errorCode = [p \in Procs |-> [t \in TransferIds |-> NoError]]
    /\ issued = [p \in Procs |-> <<>>]
    /\ keys = [p \in Procs |-> <<>>]
    /\ transport = [p \in Procs |->
                      [warmed |-> 0, seeded |-> NoAddress, spawned |-> 0]]
    /\ ipcLog = [p \in Procs |-> <<>>]
    /\ toChild = [c \in 0..(MaxWorkers - 1) |-> <<>>]
    /\ toParent = [c \in 0..(MaxWorkers - 1) |-> <<>>]
    /\ now = 0
    /\ ticks = 0
    /\ taskQueue = [p \in Procs |->
                      IF SchedulesAtConstruction(options, p)
                      THEN SchedulePulseMetrics(<<>>, now)
                      ELSE <<>>]
    /\ pulsePc = [p \in Procs |-> "idle"]
    /\ dataPoints = [p \in Procs |-> <<>>]
    /\ record = [p \in Procs |-> [t \in TransferIds |->
                    IF HasRecordVector(options, keyPrefix, p, t)
                    THEN NewTransferState ELSE NoTransferState]]
    /\ notifier = [p \in Procs |-> [t \in TransferIds |-> <<>>]]

\* The call sites of MeasureSinglePartObjectTransfer.
ObjectPrefixes == {ObjectUp, ObjectDown}

\* The smallest run of every role at every call site.
SmallRuns ==
    InitWith(StandaloneOptions(1, 0, 1) \cup MultiProcessOptions(1, 1, 1),
             KeyPrefixes)

\* The runs of MeasureHttpTransfer, standalone and as a worker beside its
\* coordinator.
HttpRuns ==
    InitWith(StandaloneOptions(MaxHttpTransfers, 0, MaxConcurrent)
             \cup MultiProcessOptions(1, MaxHttpTransfers, MaxConcurrent),
             {HttpDown})

\* The runs of the issuance loop: a standalone process, and a worker beside
\* its coordinator.
Init ==
    \/ InitWith(StandaloneOptions(MaxTransfers, 0, MaxConcurrent)
                \cup MultiProcessOptions(1, MaxTransfers, MaxConcurrent),
                ObjectPrefixes)
    \/ HttpRuns

\* The multi-process runs: a coordinator with several workers.
InitMP ==
    \/ InitWith(MultiProcessOptions(MaxWorkers, MaxWorkerTransfers, MaxConcurrent),
                ObjectPrefixes)
    \/ SmallRuns

\* The runs the key suffixes are followed in: every process index, and one
\* transfer at a time (the cap has no part in the keys).
InitSuffix ==
    \/ InitWith(StandaloneOptions(MaxTransfers, INT64_MAX, 1), ObjectPrefixes)
    \/ SmallRuns

\* The runs in which the keys of several workers are compared: workers with
\* more than one transfer each, one transfer at a time, numbered suffixes.
InitKeys ==
    \/ InitWith(MultiProcessOptions(MaxWorkers, MaxKeyTransfers, 1), {ObjectUp})
    \/ SmallRuns

\* ------------------------------------------------- role-dependent prologue
\* Lines 55-60: the coordinator warms the DNS cache unless told not to.
ParentEnter(p) ==
    /\ pc[p] = "start"
    /\ isParentProcess(p)
    /\ transport' = [transport EXCEPT ![p].warmed =
                        IF DontWarmDNSCache(keyPrefix[p]) THEN @ ELSE @ + 1]
    /\ pc' = [pc EXCEPT ![p] = "writeAddress"]
    /\ i' = [i EXCEPT ![p] = 0]
    /\ UNCHANGED <<options, keyPrefix, counter, numInProgress, numCompleted, xfer,
                   errorCode, issued, keys, ipcLog, toChild, toParent, pulseVars>>
    /\ UNCHANGED recordVars

\* Lines 62-66: one address write per transfer index, to the child of that index.
ParentWriteAddress(p) ==
    /\ pc[p] = "writeAddress"
    /\ isParentProcess(p)
    /\ IF i[p] < numTransfers(p)
       THEN /\ \E next \in AfterTransportCall(p, "writeAddress") :
                 /\ pc' = [pc EXCEPT ![p] = next]
                 /\ IF next = "crashed"
                    THEN UNCHANGED <<toChild, ipcLog, i>>
                    ELSE /\ toChild' = [toChild EXCEPT ![ChildForTransfer(i[p])] =
                                Append(@, [key |-> addressKey(p),
                                           value |-> GetAddressForTransfer(i[p])])]
                         /\ ipcLog' = [ipcLog EXCEPT ![p] =
                                Append(@, <<"WriteToChildProcess", ChildForTransfer(i[p])>>)]
                         /\ i' = [i EXCEPT ![p] = @ + 1]
       ELSE /\ pc' = [pc EXCEPT ![p] = "readFinished"]
            /\ i' = [i EXCEPT ![p] = 0]
            /\ UNCHANGED <<toChild, ipcLog>>
    /\ UNCHANGED <<options, keyPrefix, counter, numInProgress, numCompleted, xfer,
                   errorCode, issued, keys, transport, toParent, pulseVars>>
    /\ UNCHANGED recordVars

\* (mutant) the coordinator does not wait for the finished tokens.
ParentReadFinishedWithoutWaiting(p) ==
    /\ pc[p] = "readFinished"
    /\ isParentProcess(p)
    /\ IF i[p] < numTransfers(p)
       THEN /\ ipcLog' = [ipcLog EXCEPT ![p] =
                             Append(@, <<"ReadFromChildProcess", ChildForTransfer(i[p])>>)]
            /\ i' = [i EXCEPT ![p] = @ + 1]
            /\ pc' = pc
       ELSE /\ pc' = [pc EXCEPT ![p] = "returned"]
            /\ UNCHANGED <<ipcLog, i>>
    /\ UNCHANGED <<options, keyPrefix, counter, numInProgress, numCompleted, xfer,
                   errorCode, issued, keys, transport, toChild, toParent, pulseVars>>
    /\ UNCHANGED recordVars

\* Lines 68-73: one blocking finished-read per transfer index, then return.
ParentReadFinished(p) ==
    /\ pc[p] = "readFinished"
    /\ isParentProcess(p)
    /\ IF i[p] < numTransfers(p)
       THEN LET c == ChildForTransfer(i[p])
                k == FirstWithKey(toParent[c], finishedKey(p), 1) IN
            /\ k > 0
            /\ toParent' = [toParent EXCEPT ![c] = RemoveAt(@, k)]
            /\ ipcLog' = [ipcLog EXCEPT ![p] =
                             Append(@, <<"ReadFromChildProcess", c>>)]
            /\ i' = [i EXCEPT ![p] = @ + 1]
            /\ pc' = pc
       ELSE /\ pc' = [pc EXCEPT ![p] = "returned"]
            /\ UNCHANGED <<toParent, ipcLog, i>>
    /\ UNCHANGED <<options, keyPrefix, counter, numInProgress, numCompleted, xfer,
                   errorCode, issued, keys, transport, toChild, pulseVars>>
    /\ UNCHANGED recordVars

\* (mutant) the child goes on without reading its address.
ChildSkipsAddressRead(p) ==
    /\ pc[p] = "start"
    /\ isChildProcess(p)
    /\ ~isParentProcess(p)
    /\ pc' = [pc EXCEPT ![p] = "seed"]
    /\ UNCHANGED <<options, keyPrefix, i, counter, numInProgress, numCompleted, xfer,
                   errorCode, issued, keys, ipcVars, pulseVars>>
    /\ UNCHANGED recordVars

\* Line 77: the child blocks until the coordinator has written its address.
ChildReadAddress(p) ==
    /\ pc[p] = "start"
    /\ isChildProcess(p)
    /\ ~isParentProcess(p)
    /\ LET c == options[p].childProcessIndex
           k == FirstWithKey(toChild[c], addressKey(p), 1) IN
       /\ k > 0
       /\ toChild' = [toChild EXCEPT ![c] = RemoveAt(@, k)]
       /\ ipcLog' = [ipcLog EXCEPT ![p] =
                        Append(@, <<"ReadFromParentProcess", toChild[c][k].value>>)]
    /\ pc' = [pc EXCEPT ![p] = "seed"]
    /\ UNCHANGED <<options, keyPrefix, i, counter, numInProgress, numCompleted, xfer,
                   errorCode, issued, keys, transport, toParent, pulseVars>>
    /\ UNCHANGED recordVars

\* The local `address` of line 77: the value the child read.
AddressRead(p) ==
    LET reads == {k \in 1..Len(ipcLog[p]) : ipcLog[p][k][1] = "ReadFromParentProcess"} IN
    IF reads = {} THEN NoAddress
    ELSE ipcLog[p][CHOOSE k \in reads : \A j \in reads : j <= k][2]

\* Line 81: the address read is handed to the transport's address cache.
ChildSeedAddressCache(p) ==
    /\ pc[p] = "seed"
    /\ \E next \in AfterTransportCall(p, "spawn") :
          /\ pc' = [pc EXCEPT ![p] = next]
          /\ transport' = [transport EXCEPT ![p].seeded =
                              IF next = "crashed" THEN @ ELSE AddressRead(p)]
    /\ UNCHANGED <<options, keyPrefix, i, counter, numInProgress, numCompleted, xfer,
                   errorCode, issued, keys, ipcLog, toChild, toParent, pulseVars>>
    /\ UNCHANGED recordVars

\* Lines 86-89: a standalone process warms the DNS cache unless told not to.
StandaloneEnter(p) ==
    /\ pc[p] = "start"
    /\ ~isParentProcess(p)
    /\ ~isChildProcess(p)
    /\ transport' = [transport EXCEPT ![p].warmed =
                        IF DontWarmDNSCache(keyPrefix[p]) THEN @ ELSE @ + 1]
    /\ pc' = [pc EXCEPT ![p] = "spawn"]
    /\ UNCHANGED <<options, keyPrefix, i, counter, numInProgress, numCompleted, xfer,
                   errorCode, issued, keys, ipcLog, toChild, toParent, pulseVars>>
    /\ UNCHANGED recordVars

\* Lines 82 and 91, then the locals of lines 96-102.
SpawnConnectionManagers(p) ==
    /\ pc[p] = "spawn"
    /\ \E next \in AfterTransportCall(p, "loop") :
          /\ pc' = [pc EXCEPT ![p] = next]
          /\ transport' = [transport EXCEPT ![p].spawned =
                              IF next = "crashed" THEN @ ELSE @ + 1]
    /\ numCompleted' = [numCompleted EXCEPT ![p] = 0]
    /\ numInProgress' = [numInProgress EXCEPT ![p] = 0]
    /\ counter' = [counter EXCEPT ![p] =
                      (INT64_MAX - options[p].childProcessIndex) % Uint64Mod]
    /\ i' = [i EXCEPT ![p] = 0]
    /\ UNCHANGED <<options, keyPrefix, xfer, errorCode, issued, keys, ipcLog,
                   toChild, toParent, pulseVars>>
    /\ UNCHANGED recordVars

\* ------------------------------------------------------ the issuance loop
\* (mutant) the loop gives up once a transfer has reported a failure.
MoreTransfersUntilFailure(p) ==
    /\ i[p] < numTransfers(p)
    /\ \A t \in TransferIds : errorCode[p][t] \in {NoError, AWS_ERROR_SUCCESS}

\* Line 104: the loop condition.
MoreTransfers(p) == i[p] < numTransfers(p)

\* (mutant) the counter is not restarted at 0.
WrapCounterNever(c) == c

\* Lines 106-109: a counter that has reached 0 restarts from INT64_MAX.
WrapCounter(c) == IF c = 0 THEN INT64_MAX ELSE c

\* Line 116: counter-- on a uint64_t.
DecrementCounter(c) == (c - 1 + Uint64Mod) % Uint64Mod

\* (mutant) the slot predicate reads the completed count.
SlotFreeByCompleted(p) == numCompleted[p] < numConcurrentTransfers(p)

\* (mutant) the slot predicate is off by one.
SlotFreeOffByOne(p) == numInProgress[p] <= numConcurrentTransfers(p)

\* Line 153: the predicate of the wait for a free slot.
SlotFree(p) == numInProgress[p] < numConcurrentTransfers(p)

\* (mutant) the final wait is content with one completion missing.
AllCompletedButOne(p) == numCompleted[p] + 1 >= numTransfers(p)

\* Line 159: the predicate of the final wait.
AllCompleted(p) == numCompleted[p] >= numTransfers(p)

\* (mutant) the increment leaves the count as it was.
Increment32Lost(n) == n

\* --numInProgress and ++numCompleted on std::atomic<uint32_t>.
Decrement32(n) == IF n = 0 THEN UINT32_WRAPPED ELSE n - 1
Increment32(n) == IF n = UINT32_WRAPPED THEN 0 ELSE n + 1

\* Lines 104-121: the counter wrap, the key, and ++numInProgress.
LoopIncrement(p) ==
    /\ pc[p] = "loop"
    /\ MoreTransfers(p)
    /\ LET c == WrapCounter(counter[p]) IN
       IF NoFileSuffix(keyPrefix[p])
       THEN /\ counter' = [counter EXCEPT ![p] = c]
            /\ keys' = [keys EXCEPT ![p] = Append(@, NoSuffix)]
       ELSE /\ counter' = [counter EXCEPT ![p] = DecrementCounter(c)]
            /\ keys' = [keys EXCEPT ![p] = Append(@, c)]
    /\ numInProgress' = [numInProgress EXCEPT ![p] = Increment32(@)]
    /\ pc' = [pc EXCEPT ![p] = "call"]
    /\ UNCHANGED <<options, keyPrefix, i, numCompleted, xfer, errorCode, issued,
                   ipcVars, pulseVars>>
    /\ UNCHANGED recordVars

\* Line 149: the transfer function is invoked for index i; the transfer is
\* now with the transport, which will deliver its completion. The HTTP
\* transfer function creates the transfer's TransferState itself (lines
\* 210-212).
CallTransferFunction(p) ==
    /\ pc[p] = "call"
    /\ xfer' = [xfer EXCEPT ![p][i[p]] = "inflight"]
    /\ issued' = [issued EXCEPT ![p] = Append(@, i[p])]
    /\ pc' = [pc EXCEPT ![p] = "slotCheck"]
    /\ record' = IF keyPrefix[p] = HttpDown
                 THEN [record EXCEPT ![p][i[p]] = NewTransferState]
                 ELSE record
    /\ notifier' = notifier
    /\ UNCHANGED <<options, keyPrefix, i, counter, numInProgress, numCompleted,
                   errorCode, keys, ipcVars, pulseVars>>

\* Lines 151-155: wait(guard, pred) evaluates the predicate under the mutex;
\* when it holds the iteration ends, otherwise the thread is about to block.
SlotCheck(p) ==
    /\ pc[p] = "slotCheck"
    /\ IF SlotFree(p)
       THEN /\ pc' = [pc EXCEPT ![p] = "loop"]
            /\ i' = [i EXCEPT ![p] = @ + 1]
       ELSE /\ pc' = [pc EXCEPT ![p] = "slotWait"]
            /\ i' = i
    /\ UNCHANGED <<options, keyPrefix, counter, numInProgress, numCompleted, xfer,
                   errorCode, issued, keys, ipcVars, pulseVars>>
    /\ UNCHANGED recordVars

\* Line 104: the loop ends.
LoopExit(p) ==
    /\ pc[p] = "loop"
    /\ ~MoreTransfers(p)
    /\ pc' = [pc EXCEPT ![p] = "finalCheck"]
    /\ UNCHANGED <<options, keyPrefix, i, counter, numInProgress, numCompleted, xfer,
                   errorCode, issued, keys, ipcVars, pulseVars>>
    /\ UNCHANGED recordVars

\* Lines 157-161: the predicate of the final wait; a process that is not a
\* child returns as soon as it holds.
FinalCheck(p) ==
    /\ pc[p] = "finalCheck"
    /\ pc' = [pc EXCEPT ![p] =
                 IF ~AllCompleted(p) THEN "finalWait"
                 ELSE IF isChildProcess(p) THEN "writeFinished"
                 ELSE "returned"]
    /\ UNCHANGED <<options, keyPrefix, i, counter, numInProgress, numCompleted, xfer,
                   errorCode, issued, keys, ipcVars, pulseVars>>
    /\ UNCHANGED recordVars

\* condition_variable::wait(lock): the thread releases the mutex and blocks.
\* The notifications take no mutex, so any of them can run between the
\* predicate's evaluation and this step.
CvWaitBlock(p) ==
    /\ pc[p] \in {"slotWait", "finalWait"}
    /\ pc' = [pc EXCEPT ![p] = IF @ = "slotWait" THEN "slotBlocked" ELSE "finalBlocked"]
    /\ UNCHANGED <<options, keyPrefix, i, counter, numInProgress, numCompleted, xfer,
                   errorCode, issued, keys, ipcVars, pulseVars>>
    /\ UNCHANGED recordVars

\* A blocked thread that is woken evaluates its predicate again.
Woken(at) ==
    IF at = "slotBlocked" THEN "slotCheck"
    ELSE IF at = "finalBlocked" THEN "finalCheck"
    ELSE at

\* condition_variable::wait may return without a notification.
SpuriousWakeup(p) ==
    /\ pc[p] \in {"slotBlocked", "finalBlocked"}
    /\ pc' = [pc EXCEPT ![p] = Woken(@)]
    /\ UNCHANGED <<options, keyPrefix, i, counter, numInProgress, numCompleted, xfer,
                   errorCode, issued, keys, ipcVars, pulseVars>>
    /\ UNCHANGED recordVars

\* Lines 161-164: a child tells the coordinator that it has finished.
ChildWriteFinished(p) ==
    /\ pc[p] = "writeFinished"
    /\ toParent' = [toParent EXCEPT ![options[p].childProcessIndex] =
                       Append(@, [key |-> finishedKey(p), value |-> <<"done">>])]
    /\ ipcLog' = [ipcLog EXCEPT ![p] = Append(@, <<"WriteToParentProcess", <<"done">>>>)]
    /\ pc' = [pc EXCEPT ![p] = "returned"]
    /\ UNCHANGED <<options, keyPrefix, i, counter, numInProgress, numCompleted, xfer,
                   errorCode, issued, keys, transport, toChild, pulseVars>>
    /\ UNCHANGED recordVars

\* ------------------------------------------- completion of one transfer
\* TransferState::SetTransferSuccess.
SetTransferSuccess(r, success) ==
    [r EXCEPT !.flag = IF success THEN "success" ELSE "failure", !.sets = @ + 1]

\* TransferState::FlushDataUpMetrics / FlushDataDownMetrics.
FlushDataMetrics(r) == [r EXCEPT !.flushes = @ + 1]

\* Lines 341-344 and 390-393: the object transport delivers the completion of
\* transfer t with an outcome, on a thread of its own; the callback sets the
\* record's success flag and invokes notifyTransferFinished (lines 124-132).
TransferCompletes(p, t, err) ==
    /\ keyPrefix[p] # HttpDown
    /\ xfer[p][t] = "inflight"
    /\ xfer' = [xfer EXCEPT ![p][t] = "callback"]
    /\ errorCode' = [errorCode EXCEPT ![p][t] = err]
    /\ record' = [record EXCEPT ![p][t] = SetTransferSuccess(@, err = AWS_ERROR_SUCCESS)]
    /\ notifier' = [notifier EXCEPT ![p][t] = Append(@, "completion")]
    /\ UNCHANGED <<options, keyPrefix, pc, i, counter, numInProgress, numCompleted,
                   issued, keys, ipcVars, pulseVars>>

\* What the connection manager can hand to the AcquireConnection callback.
Connections == {"null", "closed", "open"}
\* conn->NewClientStream(requestOptions), whose result line 277 does not look
\* at: the stream is made, and its completion will be delivered, or it is not.
NewClientStreamResults == {"streaming", "dropped"}
\* Response status codes of a completed stream.
ResponseStatusCodes == {200, 404}

\* Lines 265-282: the callback of AcquireConnection. Without an open
\* connection the error is at least AWS_ERROR_UNKNOWN; on an error
\* notifyTransferFinished is invoked, otherwise a stream is requested.
AcquireConnectionCallback(p, t, conn, connErrorCode) ==
    /\ keyPrefix[p] = HttpDown
    /\ xfer[p][t] = "inflight"
    /\ LET code == IF conn # "open" /\ connErrorCode = AWS_ERROR_SUCCESS
                   THEN AWS_ERROR_UNKNOWN
                   ELSE connErrorCode IN
       IF code = AWS_ERROR_SUCCESS
       THEN /\ \E stream \in NewClientStreamResults :
                  xfer' = [xfer EXCEPT ![p][t] = stream]
            /\ UNCHANGED <<errorCode, notifier>>
       ELSE /\ xfer' = [xfer EXCEPT ![p][t] = "callback"]
            /\ errorCode' = [errorCode EXCEPT ![p][t] = code]
            /\ notifier' = [notifier EXCEPT ![p][t] = Append(@, "AcquireConnection")]
    /\ UNCHANGED <<options, keyPrefix, pc, i, counter, numInProgress, numCompleted,
                   issued, keys, ipcVars, pulseVars, record>>

\* Lines 231-261: onStreamComplete. A response status other than 200 makes a
\* success an AWS_ERROR_UNKNOWN; notifyTransferFinished is invoked.
OnStreamComplete(p, t, error, status) ==
    /\ keyPrefix[p] = HttpDown
    /\ xfer[p][t] = "streaming"
    /\ xfer' = [xfer EXCEPT ![p][t] = "callback"]
    /\ errorCode' = [errorCode EXCEPT ![p][t] =
                        IF error = AWS_ERROR_SUCCESS /\ status # 200
                        THEN AWS_ERROR_UNKNOWN
                        ELSE error]
    /\ notifier' = [notifier EXCEPT ![p][t] = Append(@, "onStreamComplete")]
    /\ UNCHANGED <<options, keyPrefix, pc, i, counter, numInProgress, numCompleted,
                   issued, keys, ipcVars, pulseVars, record>>

\* Line 263: onStreamComplete flushes the record once notifyTransferFinished
\* has returned.
StreamFlush(p, t) ==
    /\ keyPrefix[p] = HttpDown
    /\ xfer[p][t] = "notified"
    /\ notifier[p][t] = <<"onStreamComplete">>
    /\ record[p][t].flushes = 0
    /\ record' = [record EXCEPT ![p][t] = FlushDataMetrics(@)]
    /\ UNCHANGED <<options, keyPrefix, gateVars, ipcVars, pulseVars, notifier>>

\* Lines 347-350 and 396-399: once PerformMeasurement has returned,
\* MeasureSinglePartObjectTransfer flushes the record of every index.
FlushLoop(p) ==
    /\ pc[p] = "returned"
    /\ keyPrefix[p] \in {ObjectUp, ObjectDown}
    /\ record' = [record EXCEPT ![p] =
                     [t \in TransferIds |->
                         IF t < numTransfers(p) THEN FlushDataMetrics(@[t]) ELSE @[t]]]
    /\ pc' = [pc EXCEPT ![p] = "flushed"]
    /\ UNCHANGED <<options, keyPrefix, i, counter, numInProgress, numCompleted, xfer,
                   errorCode, issued, keys, ipcVars, pulseVars, notifier>>

\* Line 134: --numInProgress.
NotifyDecrement(p, t) ==
    /\ xfer[p][t] = "callback"
    /\ numInProgress' = [numInProgress EXCEPT ![p] = Decrement32(@)]
    /\ xfer' = [xfer EXCEPT ![p][t] = "decremented"]
    /\ UNCHANGED <<options, keyPrefix, pc, i, counter, numCompleted, errorCode,
                   issued, keys, ipcVars, pulseVars>>
    /\ UNCHANGED recordVars

\* Line 135: ++numCompleted.
NotifyIncrement(p, t) ==
    /\ xfer[p][t] = "decremented"
    /\ numCompleted' = [numCompleted EXCEPT ![p] = Increment32(@)]
    /\ xfer' = [xfer EXCEPT ![p][t] = "incremented"]
    /\ UNCHANGED <<options, keyPrefix, pc, i, counter, numInProgress, errorCode,
                   issued, keys, ipcVars, pulseVars>>
    /\ UNCHANGED recordVars

\* Lines 96-100 and 165: the counters and the condition variable are locals
\* of PerformMeasurement, gone once the call has returned.
GateDestroyed(at) ==
    at \in {"returned", "flushed", "cancelInvoke", "cancelled", "published"}

\* Line 137: notify_one wakes the issuing thread if it is blocked in a wait,
\* and does nothing otherwise. On a condition variable that is gone it is
\* undefined behaviour, which either passes unnoticed or crashes the process.
AfterNotifyOne(at) ==
    IF GateDestroyed(at) THEN {at, "crashed"} ELSE {Woken(at)}

NotifyOne(p, t) ==
    /\ xfer[p][t] = "incremented"
    /\ xfer' = [xfer EXCEPT ![p][t] = "notified"]
    /\ \E next \in AfterNotifyOne(pc[p]) : pc' = [pc EXCEPT ![p] = next]
    /\ UNCHANGED <<options, keyPrefix, i, counter, numInProgress, numCompleted,
                   errorCode, issued, keys, ipcVars, pulseVars>>
    /\ UNCHANGED recordVars

\* ------------------------------------------------------------------- Next
Next ==
    \E p \in Procs :
        \/ ParentEnter(p)
        \/ ParentWriteAddress(p)
        \/ ParentReadFinished(p)
        \/ ChildReadAddress(p)
        \/ ChildSeedAddressCache(p)
        \/ StandaloneEnter(p)
        \/ SpawnConnectionManagers(p)
        \/ LoopIncrement(p)
        \/ CallTransferFunction(p)
        \/ SlotCheck(p)
        \/ LoopExit(p)
        \/ FinalCheck(p)
        \/ CvWaitBlock(p)
        \/ SpuriousWakeup(p)
        \/ ChildWriteFinished(p)
        \/ FlushLoop(p)
        \/ \E t \in TransferIds :
              \/ \E err \in ErrorCodes : TransferCompletes(p, t, err)
              \/ \E conn \in Connections : \E err \in ErrorCodes :
                    AcquireConnectionCallback(p, t, conn, err)
              \/ \E err \in ErrorCodes : \E status \in ResponseStatusCodes :
                    OnStreamComplete(p, t, err, status)
              \/ StreamFlush(p, t)
              \/ NotifyDecrement(p, t)
              \/ NotifyIncrement(p, t)
              \/ NotifyOne(p, t)

Spec == Init /\ [][Next]_vars

SpecMP == InitMP /\ [][Next]_vars

SpecSuffix == InitSuffix /\ [][Next]_vars

SpecKeys == InitKeys /\ [][Next]_vars

\* Every step of the thread that calls PerformMeasurement, the spurious
\* wake-up excepted: the standard allows it and promises none.
CallerStep(p) ==
    \/ ParentEnter(p)
    \/ ParentWriteAddress(p)
    \/ ParentReadFinished(p)
    \/ ChildReadAddress(p)
    \/ ChildSeedAddressCache(p)
    \/ StandaloneEnter(p)
    \/ SpawnConnectionManagers(p)
    \/ LoopIncrement(p)
    \/ CallTransferFunction(p)
    \/ SlotCheck(p)
    \/ LoopExit(p)
    \/ FinalCheck(p)
    \/ CvWaitBlock(p)
    \/ ChildWriteFinished(p)
    \/ FlushLoop(p)

\* Every step of the completion of transfer t.
CompletionStep(p, t) ==
    \/ \E err \in ErrorCodes : TransferCompletes(p, t, err)
    \/ \E conn \in Connections : \E err \in ErrorCodes :
          AcquireConnectionCallback(p, t, conn, err)
    \/ \E err \in ErrorCodes : \E status \in ResponseStatusCodes :
          OnStreamComplete(p, t, err, status)
    \/ StreamFlush(p, t)
    \/ NotifyDecrement(p, t)
    \/ NotifyIncrement(p, t)
    \/ NotifyOne(p, t)

\* Threads that can run do run, and the transport delivers the completion of
\* every transfer it was handed.
FairSpec ==
    /\ Spec
    /\ \A p \in Procs : WF_vars(CallerStep(p))
    /\ \A p \in Procs : \A t \in TransferIds : WF_vars(CompletionStep(p, t))

\* ------------------------------------------------- the metrics pulse task
\* (mutant) the status is not looked at.
RunsWithAnyStatus(status) == TRUE

\* Line 424: the task's body runs only when its status is RUN_READY.
RunsWithStatus(status) == status = RUN_READY

\* The call sites of PerformMeasurement that are followed by the cancel of
\* the pulse task (lines 285 and 401).
CancelFollows(prefix) == prefix \in {HttpDown, ObjectDown}

\* The clock of the scheduling context advances.
Tick ==
    /\ ticks < MaxTicks
    /\ ticks' = ticks + 1
    /\ now' = now + TickMs
    /\ UNCHANGED <<options, keyPrefix, gateVars, ipcVars, taskQueue, pulsePc, dataPoints>>
    /\ UNCHANGED recordVars

\* The event loop runs the task once its time has come: the task leaves the
\* scheduler and s_PulseMetricsTask is invoked with RUN_READY (lines 420-431).
PulseFire(p) ==
    /\ Running(p)
    /\ pulsePc[p] = "idle"
    /\ taskQueue[p] # <<>>
    /\ Head(taskQueue[p]) <= now
    /\ taskQueue' = [taskQueue EXCEPT ![p] = Tail(@)]
    /\ pulsePc' = [pulsePc EXCEPT ![p] =
                      IF RunsWithStatus(RUN_READY) THEN "sampleUpload" ELSE "idle"]
    /\ UNCHANGED <<options, keyPrefix, gateVars, ipcVars, now, ticks, dataPoints>>
    /\ UNCHANGED recordVars

\* Lines 446-457: the upload transport's address count becomes a data point.
PulseSampleUpload(p) ==
    /\ pulsePc[p] = "sampleUpload"
    /\ dataPoints' = [dataPoints EXCEPT ![p] = Append(@, "S3UploadAddressCount")]
    /\ pulsePc' = [pulsePc EXCEPT ![p] = "sampleDownload"]
    /\ UNCHANGED <<options, keyPrefix, gateVars, ipcVars, now, ticks, taskQueue>>
    /\ UNCHANGED recordVars

\* Lines 459-470: the download transport's address count becomes a data point.
PulseSampleDownload(p) ==
    /\ pulsePc[p] = "sampleDownload"
    /\ dataPoints' = [dataPoints EXCEPT ![p] = Append(@, "S3DownloadAddressCount")]
    /\ pulsePc' = [pulsePc EXCEPT ![p] = "reschedule"]
    /\ UNCHANGED <<options, keyPrefix, gateVars, ipcVars, now, ticks, taskQueue>>
    /\ UNCHANGED recordVars

\* Line 548: the task schedules itself again.
PulseReschedule(p) ==
    /\ pulsePc[p] = "reschedule"
    /\ taskQueue' = [taskQueue EXCEPT ![p] = SchedulePulseMetrics(@, now)]
    /\ pulsePc' = [pulsePc EXCEPT ![p] = "idle"]
    /\ UNCHANGED <<options, keyPrefix, gateVars, ipcVars, now, ticks, dataPoints>>
    /\ UNCHANGED recordVars

\* Lines 285 and 401: aws_event_loop_cancel_task, called by the thread that
\* ran PerformMeasurement. The task leaves the scheduler if it is in it ...
CancelTaskRemove(p) ==
    /\ pc[p] = IF keyPrefix[p] = HttpDown THEN "returned" ELSE "flushed"
    /\ CancelFollows(keyPrefix[p])
    /\ taskQueue' = [taskQueue EXCEPT ![p] = <<>>]
    /\ pc' = [pc EXCEPT ![p] = "cancelInvoke"]
    /\ UNCHANGED <<options, keyPrefix, i, counter, numInProgress, numCompleted, xfer,
                   errorCode, issued, keys, ipcVars, now, ticks, pulsePc, dataPoints>>
    /\ UNCHANGED recordVars

\* ... and s_PulseMetricsTask is invoked with CANCELED, on the cancelling
\* thread (lines 420-427; past the status check the body would run whole).
CancelTaskInvoke(p) ==
    /\ pc[p] = "cancelInvoke"
    /\ IF RunsWithStatus(CANCELED)
       THEN /\ dataPoints' = [dataPoints EXCEPT ![p] =
                  @ \o <<"S3UploadAddressCount", "S3DownloadAddressCount">>]
            /\ taskQueue' = [taskQueue EXCEPT ![p] = SchedulePulseMetrics(@, now)]
       ELSE UNCHANGED <<dataPoints, taskQueue>>
    /\ pc' = [pc EXCEPT ![p] = "cancelled"]
    /\ UNCHANGED <<options, keyPrefix, i, counter, numInProgress, numCompleted, xfer,
                   errorCode, issued, keys, ipcVars, now, ticks, pulsePc>>
    /\ UNCHANGED recordVars

\* Lines 286-293 and 402-410: after the cancel the owner has the publisher
\* publish what it holds (SchedulePublish, WaitForLastPublish) and upload
\* the backup.
PublishMetrics(p) ==
    /\ pc[p] = "cancelled"
    /\ pc' = [pc EXCEPT ![p] = "published"]
    /\ UNCHANGED <<options, keyPrefix, i, counter, numInProgress, numCompleted, xfer,
                   errorCode, issued, keys, ipcVars, pulseVars>>
    /\ UNCHANGED recordVars

PulseNext ==
    \/ Tick
    \/ \E p \in Procs :
          \/ PulseFire(p)
          \/ PulseSampleUpload(p)
          \/ PulseSampleDownload(p)
          \/ PulseReschedule(p)
          \/ CancelTaskRemove(p)
          \/ CancelTaskInvoke(p)
          \/ PublishMetrics(p)

\* A run small enough to be followed together with the clock and the pulse
\* task of every process.
InitPulse ==
    \/ InitWith(StandaloneOptions(MaxPulseTransfers, 0, MaxConcurrent)
                \cup MultiProcessOptions(1, MaxPulseTransfers, MaxConcurrent),
                ObjectPrefixes)
    \/ SmallRuns

SpecPulse == InitPulse /\ [][Next \/ PulseNext]_vars

\* ------------------------------- upload measurement, then download measurement
\* The numDownTransfers and numDownConcurrentTransfers a process can have.
DownTransferCounts(p) ==
    IF isParentProcess(p) THEN 1..MaxWorkers ELSE 0..MaxPhaseTransfers
DownConcurrentCounts == {1}

\* Lines 352-378: once the upload measurement has returned and its records
\* are flushed, MeasureSinglePartObjectTransfer creates the download records
\* and calls PerformMeasurement again, with the download prefix, counts and
\* transport; the call starts with locals of its own. (A notify_one of the
\* upload call that is still to come stays undefined behaviour: it can have
\* crashed the process before this step, and is not followed after it.)
CallDownloadMeasurement(p) ==
    /\ pc[p] = "flushed"
    /\ keyPrefix[p] = ObjectUp
    /\ \E n \in DownTransferCounts(p), c \in DownConcurrentCounts :
          /\ options' = [options EXCEPT ![p].numTransfers = n,
                                         ![p].numConcurrentTransfers = c]
          /\ record' = [record EXCEPT ![p] =
                           [t \in TransferIds |->
                               IF t < n THEN NewTransferState ELSE NoTransferState]]
    /\ keyPrefix' = [keyPrefix EXCEPT ![p] = ObjectDown]
    /\ pc' = [pc EXCEPT ![p] = "start"]
    /\ i' = [i EXCEPT ![p] = 0]
    /\ counter' = [counter EXCEPT ![p] = 0]
    /\ numInProgress' = [numInProgress EXCEPT ![p] = 0]
    /\ numCompleted' = [numCompleted EXCEPT ![p] = 0]
    /\ xfer' = [xfer EXCEPT ![p] = [t \in TransferIds |-> "none"]]
    /\ errorCode' = [errorCode EXCEPT ![p] = [t \in TransferIds |-> NoError]]
    /\ issued' = [issued EXCEPT ![p] = <<>>]
    /\ keys' = [keys EXCEPT ![p] = <<>>]
    /\ transport' = [transport EXCEPT ![p] =
                        [warmed |-> 0, seeded |-> NoAddress, spawned |-> 0]]
    /\ notifier' = [notifier EXCEPT ![p] = [t \in TransferIds |-> <<>>]]
    /\ UNCHANGED <<ipcLog, toChild, toParent, pulseVars>>

PhaseNext == \E p \in Procs : CallDownloadMeasurement(p)

\* The runs of MeasureSinglePartObjectTransfer with uploads enabled: a
\* standalone process, and a coordinator with its workers.
InitPhases ==
    \/ InitWith(StandaloneOptions(MaxPhaseTransfers, 0, 1)
                \cup MultiProcessOptions(MaxWorkers, MaxPhaseTransfers, 1),
                {ObjectUp})
    \/ SmallRuns

SpecPhases == InitPhases /\ [][Next \/ PhaseNext]_vars

\* ================================================================ claims
\* Processes that run the issuance loop (standalone or worker).
Issuers == {p \in Procs : Running(p) /\ ~isParentProcess(p)}
\* Child processes of a multi-process run.
Children == {p \in Procs : Running(p) /\ isChildProcess(p)}

\* Positions of the calling thread once the loop of lines 104-155 has ended.
PastLoop == {"finalCheck", "finalWait", "finalBlocked", "writeFinished",
             "returned", "flushed", "cancelInvoke", "cancelled", "published"}
\* Positions at and after the return of PerformMeasurement.
Returned == {"returned", "flushed", "cancelInvoke", "cancelled", "published"}
Blocked == {"slotBlocked", "finalBlocked"}
\* A completion whose notify_one (line 137) is still to come.
NotificationAhead(p) ==
    \E t \in TransferIds :
        xfer[p][t] \in {"inflight", "streaming", "callback", "decremented", "incremented"}
\* Every transfer issued so far has had, or will have, its notification.
EveryNotificationInvoked(p) == \A t \in TransferIds : xfer[p][t] # "dropped"

Ascending(n) == [k \in 1..n |-> k - 1]

\* C1: in a standalone or worker run the in-flight count numInProgress never
\* exceeds the concurrency cap numConcurrentTransfers, in any reachable state.
C1_InFlightWithinCap ==
    \A p \in Issuers : numInProgress[p] <= numConcurrentTransfers(p)

\* C1 witness: the cap is reached and the issuing thread is blocked on it.
C1_Witness ==
    \E p \in Issuers :
        /\ pc[p] = "slotBlocked"
        /\ numConcurrentTransfers(p) = 2
        /\ numInProgress[p] = 2

\* C2 (as claimed): when every issued transfer's notification is invoked, the
\* issuing thread is never left blocked for good: whenever it is blocked in
\* one of its two waits, a notify_one that will wake it is still to come.
C2_NeverLeftBlocked ==
    \A p \in Issuers :
        (pc[p] \in Blocked /\ EveryNotificationInvoked(p)) => NotificationAhead(p)

\* C2 (as claimed, in time): a thread that has entered the issuance loop
\* comes to the return of PerformMeasurement.
C2_EventuallyReturns ==
    \A p \in Procs :
        [](EveryNotificationInvoked(p) /\ pc[p] # "crashed")
            => ((pc[p] = "loop") ~> (pc[p] \in Returned))

\* C3: whatever the outcomes, the loop invokes the transfer function once for
\* every index 0..N-1 in turn, a failure neither ends the loop nor skips an
\* index, and when PerformMeasurement returns the completed count is N and
\* the in-flight count is 0.
C3_AllIssuedAllCompleted ==
    \A p \in Issuers :
        /\ Len(issued[p]) <= numTransfers(p)
        /\ issued[p] = Ascending(Len(issued[p]))
        /\ pc[p] \in PastLoop => issued[p] = Ascending(numTransfers(p))
        /\ pc[p] \in Returned =>
              /\ numCompleted[p] = numTransfers(p)
              /\ numInProgress[p] = 0

\* C3 witness: a run of three transfers has returned although its second
\* transfer failed.
C3_Witness ==
    \E p \in Issuers :
        /\ pc[p] = "returned"
        /\ numTransfers(p) = 3
        /\ errorCode[p][1] = AWS_ERROR_UNKNOWN
        /\ errorCode[p][2] = AWS_ERROR_SUCCESS

HasLogged(p, op) == \E k \in 1..Len(ipcLog[p]) : ipcLog[p][k][1] = op
HasReadFinishedOf(c) ==
    \E k \in 1..Len(ipcLog[0]) : ipcLog[0][k] = <<"ReadFromChildProcess", c>>

\* C4: the coordinator's finished-read for worker c returns only after worker
\* c's finished-write, which comes only after all of worker c's transfers have
\* completed; so the coordinator returns only after every worker has ended its
\* loop and signalled completion.
C4_FinishedReadAfterWorkerDone ==
    /\ \A p \in Children :
          /\ HasReadFinishedOf(options[p].childProcessIndex)
                => HasLogged(p, "WriteToParentProcess")
          /\ HasLogged(p, "WriteToParentProcess") =>
                /\ numCompleted[p] = numTransfers(p)
                /\ \A t \in 0..(numTransfers(p) - 1) :
                      xfer[p][t] \in {"incremented", "notified"}
    /\ (isParentProcess(0) /\ pc[0] \in Returned) =>
          /\ Cardinality(Children) = numTransfers(0)
          /\ \A p \in Children :
                /\ HasLogged(p, "WriteToParentProcess")
                /\ pc[p] \in Returned \cup {"crashed"}

\* C4 witness: a coordinator of two workers, each with a transfer, has returned.
C4_Witness ==
    /\ isParentProcess(0)
    /\ pc[0] = "returned"
    /\ numTransfers(0) = 2
    /\ \A p \in Children : numTransfers(p) = 1

CoordinatorLog(n) ==
    [k \in 1..(2 * n) |->
        IF k <= n THEN <<"WriteToChildProcess", k - 1>>
        ELSE <<"ReadFromChildProcess", k - n - 1>>]

\* C5: the coordinator writes one address per index 0..N-1 in ascending order
\* to the child of that index, then reads one finished token per index in
\* ascending order, every write before every read; it never invokes the
\* transfer function and never touches the in-flight or completed counters.
C5_CoordinatorExchange ==
    isParentProcess(0) =>
        /\ Len(ipcLog[0]) <= 2 * numTransfers(0)
        /\ ipcLog[0] = SubSeq(CoordinatorLog(numTransfers(0)), 1, Len(ipcLog[0]))
        /\ pc[0] \in Returned => ipcLog[0] = CoordinatorLog(numTransfers(0))
        /\ issued[0] = <<>>
        /\ numInProgress[0] = 0
        /\ numCompleted[0] = 0
        /\ \A t \in TransferIds : xfer[0][t] = "none"

\* C5 witness: a coordinator with two transfers has returned.
C5_Witness ==
    /\ isParentProcess(0)
    /\ pc[0] = "returned"
    /\ Len(ipcLog[0]) = 4

\* C6: a worker reads its address once, before it seeds the address cache,
\* spawns its connection pool or issues a transfer, and writes its finished
\* token once, only after the completed count has reached N.
C6_WorkerExchange ==
    \A p \in Children :
        /\ Len(ipcLog[p]) <= 2
        /\ Len(ipcLog[p]) >= 1 =>
              ipcLog[p][1] = <<"ReadFromParentProcess",
                               GetAddressForTransfer(options[p].childProcessIndex)>>
        /\ Len(ipcLog[p]) = 2 =>
              /\ ipcLog[p][2] = <<"WriteToParentProcess", <<"done">>>>
              /\ numCompleted[p] = numTransfers(p)
        /\ (pc[p] # "start" \/ transport[p].seeded # NoAddress
              \/ transport[p].spawned > 0 \/ issued[p] # <<>>) => Len(ipcLog[p]) >= 1
        /\ transport[p].seeded \in {NoAddress, AddressRead(p)}
        /\ pc[p] \in Returned => Len(ipcLog[p]) = 2

\* C6 witness: a worker with a transfer has seeded, spawned, issued and returned.
C6_Witness ==
    \E p \in Children :
        /\ pc[p] = "returned"
        /\ numTransfers(p) = 1
        /\ transport[p].seeded # NoAddress
        /\ transport[p].spawned = 1

\* C7 (as claimed): once the owner's cancel has returned, no pulse is pending,
\* at whichever point of the task's life the cancel landed.
C7_NothingPendingAfterCancel ==
    \A p \in Procs : pc[p] = "cancelled" => taskQueue[p] = <<>>

\* C8: an invocation of the pulse task with a status other than RUN_READY adds
\* no data point and schedules nothing: the publisher's data points and the
\* scheduled tasks are as they were before it.
C8_CancelledInvocationIsNoOp ==
    [][\A p \in Procs :
          (pc[p] = "cancelInvoke" /\ pc'[p] = "cancelled")
             => (dataPoints' = dataPoints /\ taskQueue' = taskQueue)]_vars

\* C8 witness: the cancelled invocation has run in a process whose pulse task
\* had sampled before.
C8_Witness ==
    \E p \in Procs : pc[p] = "cancelled" /\ dataPoints[p] # <<>>

\* C9: at most one pulse is pending in every reachable state: the task is
\* never scheduled while it is already scheduled.
C9_AtMostOnePending ==
    \A p \in Procs : Len(taskQueue[p]) <= 1

\* C9 witness: the task has fired, sampled and scheduled itself again.
C9_Witness ==
    \E p \in Procs :
        /\ Len(taskQueue[p]) = 1
        /\ Len(dataPoints[p]) >= 2
        /\ pulsePc[p] = "idle"
        /\ taskQueue[p][1] >= 2 * AllocationMetricFrequency

\* The suffix that follows suffix s.
NextSuffix(s) == IF s = 1 THEN INT64_MAX ELSE s - 1
SuffixRuns == {p \in Issuers : ~NoFileSuffix(keyPrefix[p])}
SuffixChain(p) ==
    /\ \A k \in 1..Len(keys[p]) : keys[p][k] # 0
    /\ \A k \in 1..(Len(keys[p]) - 1) : keys[p][k + 1] = NextSuffix(keys[p][k])

\* C10 (as claimed): with numbered suffixes, for every process index in
\* 0..MAX the first suffix is MAX - index, each next one is one less, after
\* suffix 1 comes MAX, and suffix 0 is never issued.
C10_SuffixesFromMaxMinusIndex ==
    \A p \in SuffixRuns :
        /\ keys[p] # <<>> => keys[p][1] = INT64_MAX - options[p].childProcessIndex
        /\ SuffixChain(p)

\* C10 (amended): as claimed for every process index below MAX; for the index
\* MAX the counter starts at 0, so the first suffix is MAX.
C10_SuffixesWrapBeforeFirst ==
    \A p \in SuffixRuns :
        /\ keys[p] # <<>> =>
              keys[p][1] = IF options[p].childProcessIndex = INT64_MAX
                           THEN INT64_MAX
                           ELSE INT64_MAX - options[p].childProcessIndex
        /\ SuffixChain(p)

\* C10 witness: a run longer than its distance to zero has wrapped to MAX.
C10_Witness ==
    \E p \in SuffixRuns :
        /\ Len(keys[p]) = 3
        /\ keys[p][1] = 2
        /\ keys[p][2] = 1
        /\ keys[p][3] = INT64_MAX

\* The suffixes of a run, as a set.
SuffixSet(p) == {keys[p][k] : k \in 1..Len(keys[p])}

\* C11 (as claimed): processes with different indices that run the loop with
\* numbered suffixes on the same key prefix issue no suffix in common, and the
\* suffixes of one run are pairwise distinct.
C11_SuffixesDoNotCollide ==
    /\ \A p \in SuffixRuns : \A q \in SuffixRuns :
          options[p].childProcessIndex # options[q].childProcessIndex
             => SuffixSet(p) \cap SuffixSet(q) = {}
    /\ \A p \in SuffixRuns : Cardinality(SuffixSet(p)) = Len(keys[p])

\* The measurement function of the process has come past its transfers and
\* its flushes of the records of this call site.
RunComplete(p) ==
    \/ pc[p] \in {"flushed", "cancelInvoke", "cancelled", "published"}
    \/ keyPrefix[p] = HttpDown /\ pc[p] = "returned"

\* The records created for the run of process p.
Records(p) == {t \in TransferIds : record[p][t].flag # "none"}

\* C12 (as claimed): once a measurement run is complete, in whichever role,
\* no record created for it has a success flag that is still pending.
C12_NoRecordPending ==
    \A p \in Procs :
        RunComplete(p) => \A t \in Records(p) : record[p][t].flag # "pending"

\* The transfers whose completion has taken them out of the in-flight count.
Completed(p) ==
    {t \in TransferIds : xfer[p][t] \in {"decremented", "incremented", "notified"}}

\* C13: transfers are issued in ascending index order, and transfer i >= C is
\* issued only when at least i - C + 1 of the earlier transfers have completed:
\* of the transfers issued so far, at most C have not completed.
C13_IssuedInOrderBehindCompletions ==
    \A p \in Issuers :
        /\ issued[p] = Ascending(Len(issued[p]))
        /\ Len(issued[p]) - numConcurrentTransfers(p) <= Cardinality(Completed(p))

\* C13 witness: with a cap of 2 the third transfer has been issued after the
\* second one completed, the first one still being in flight.
C13_Witness ==
    \E p \in Issuers :
        /\ numConcurrentTransfers(p) = 2
        /\ issued[p] = <<0, 1, 2>>
        /\ xfer[p][0] = "inflight"
        /\ xfer[p][1] = "notified"
        /\ xfer[p][2] = "inflight"

\* C14 (as claimed): for every transfer issued by any of the three transfer
\* functions notifyTransferFinished is invoked exactly once: never twice, and
\* never not at all once the transport has nothing more to deliver for it
\* (also when a connection was acquired and no stream completion comes).
C14_NotifiedExactlyOnce ==
    \A p \in Issuers : \A t \in TransferIds :
        /\ Len(notifier[p][t]) <= 1
        /\ xfer[p][t] \notin {"none", "inflight", "streaming"}
              => Len(notifier[p][t]) = 1

\* The completion of the transfer has entered notifyTransferFinished.
InNotification(p, t) ==
    xfer[p][t] \in {"callback", "decremented", "incremented", "notified"}

\* C15 (as claimed): the success flag of every transfer's record is set once,
\* at the transfer's completion and before the gate hears of it, to
\* (error code = success); so after a run the flag is false exactly for the
\* transfers that failed.
C15_FlagSetOnceAtCompletion ==
    \A p \in Issuers : \A t \in TransferIds :
        /\ record[p][t].sets <= 1
        /\ ~InNotification(p, t) => record[p][t].sets = 0
        /\ InNotification(p, t) =>
              /\ record[p][t].sets = 1
              /\ record[p][t].flag =
                    IF errorCode[p][t] = AWS_ERROR_SUCCESS THEN "success" ELSE "failure"

\* The gate of p has counted the completion of transfer t (line 135), which is
\* what the waits of the issuing loop observe.
ObservedThroughGate(p, t) == xfer[p][t] \in {"incremented", "notified"}

\* C16 (as claimed): in every role, the record of index t is flushed only after
\* the completion of transfer t has been observed through the gate, so never
\* before or during a write of transfer t's callbacks to it.
C16_FlushedAfterObservedCompletion ==
    \A p \in Procs : \A t \in TransferIds :
        record[p][t].flushes > 0 => ObservedThroughGate(p, t)

\* One step of a firing of the pulse task of p that began with RUN_READY.
PulseStageStep(p) ==
    \/ /\ pulsePc[p] = "sampleUpload" /\ pulsePc'[p] = "sampleDownload"
       /\ dataPoints'[p] = Append(dataPoints[p], "S3UploadAddressCount")
       /\ taskQueue'[p] = taskQueue[p]
    \/ /\ pulsePc[p] = "sampleDownload" /\ pulsePc'[p] = "reschedule"
       /\ dataPoints'[p] = Append(dataPoints[p], "S3DownloadAddressCount")
       /\ taskQueue'[p] = taskQueue[p]
    \/ /\ pulsePc[p] = "reschedule" /\ pulsePc'[p] = "idle"
       /\ dataPoints'[p] = dataPoints[p]
       /\ taskQueue'[p] = Append(taskQueue[p], now + 5000)

\* The owner of the pulse task of p has not cancelled it, and p is alive.
NotCancelled(p) ==
    /\ Running(p)
    /\ ~isChildProcess(p)
    /\ pc[p] \notin {"cancelInvoke", "cancelled", "published", "crashed"}

\* C17: a firing with RUN_READY takes the task out of the scheduler, forwards
\* one upload address count, then one download address count, then schedules
\* one next firing for the clock of that moment + 5000 ms, and nothing else
\* happens to the task in between; and until it is cancelled the task is
\* either pending or firing, wherever the issuance loop stands.
C17_FiringSamplesThenReschedules ==
    /\ [][\A p \in Procs :
            /\ (pulsePc[p] = "idle" /\ pulsePc'[p] # "idle") =>
                  /\ pulsePc'[p] = "sampleUpload"
                  /\ Len(taskQueue[p]) = 1 /\ taskQueue[p][1] <= now
                  /\ taskQueue'[p] = <<>>
                  /\ dataPoints'[p] = dataPoints[p]
            /\ (pulsePc[p] # "idle" /\ pc'[p] = pc[p]) =>
                  \/ PulseStageStep(p)
                  \/ /\ pulsePc'[p] = pulsePc[p]
                     /\ dataPoints'[p] = dataPoints[p]
                     /\ taskQueue'[p] = taskQueue[p]]_vars
    /\ [](\A p \in Procs :
            NotCancelled(p) => (Len(taskQueue[p]) = 1 \/ pulsePc[p] # "idle"))

\* C17 witness: while the issuing thread is blocked at the gate, the pulse
\* task has fired twice and its third firing is scheduled one interval
\* after the clock of the second.
C17_Witness ==
    \E p \in Procs :
        /\ pc[p] \in Blocked
        /\ pulsePc[p] = "idle"
        /\ dataPoints[p] = <<"S3UploadAddressCount", "S3DownloadAddressCount",
                             "S3UploadAddressCount", "S3DownloadAddressCount">>
        /\ taskQueue[p] = <<now + 5000>>

\* C18: a live process that is not a worker has its first pulse scheduled
\* once, for the clock at construction + 5000 ms, until that pulse fires or is
\* cancelled; a worker has no pulse scheduled, its pulse task never samples
\* and its publisher never receives a data point, also once its owner has
\* cancelled the task that was never scheduled.
C18_OnlyNonWorkersPulse ==
    \A p \in Procs : Running(p) =>
        /\ isChildProcess(p) =>
              /\ taskQueue[p] = <<>>
              /\ pulsePc[p] = "idle"
              /\ dataPoints[p] = <<>>
        /\ (/\ ~isChildProcess(p)
            /\ pulsePc[p] = "idle"
            /\ dataPoints[p] = <<>>
            /\ NotCancelled(p)) =>
              taskQueue[p] = <<0 + 5000>>

\* C18 witness: a worker's owner has cancelled the never-scheduled task after
\* the interval has passed, while the coordinator's pulse has sampled.
C18_Witness ==
    \E p \in Children :
        /\ pc[p] = "cancelled"
        /\ now >= 5000
        /\ \E q \in Procs : isParentProcess(q) /\ dataPoints[q] # <<>>

\* C19 (as claimed): once the PerformMeasurement call that owns the gate
\* state has returned, no completion notification has a decrement, an
\* increment or a notify_one of that state still to run.
C19_NoNotificationAfterReturn ==
    \A p \in Issuers :
        GateDestroyed(pc[p]) =>
            \A t \in TransferIds :
                xfer[p][t] \notin {"inflight", "streaming", "callback",
                                   "decremented", "incremented"}

\* The channel operations of p hold a finished-write followed by an address
\* read: p is a worker that has gone from its upload measurement to its
\* download measurement.
RanUploadPhase(p) ==
    \E j \in 1..Len(ipcLog[p]) : \E k \in (j + 1)..Len(ipcLog[p]) :
        /\ ipcLog[p][j][1] = "WriteToParentProcess"
        /\ ipcLog[p][k][1] = "ReadFromParentProcess"

\* C20: with uploads enabled, a process that issues transfers itself calls
\* the download measurement only when every upload transfer has been issued
\* and has completed, so a standalone process issues no download before that;
\* and in a multi-process run no worker has issued a download transfer unless
\* every worker has written its upload finished token.
C20_UploadPhaseIsBarrier ==
    /\ [][\A p \in Procs :
            (keyPrefix[p] = ObjectUp /\ keyPrefix'[p] = ObjectDown
             /\ ~isParentProcess(p)) =>
                /\ Len(issued[p]) = numTransfers(p)
                /\ \A t \in 0..(numTransfers(p) - 1) :
                      xfer[p][t] \in {"incremented", "notified"}
                /\ issued'[p] = <<>>]_vars
    /\ [](\A p \in Children :
            (RanUploadPhase(p) /\ keyPrefix[p] = ObjectDown /\ issued[p] # <<>>) =>
                \A q \in Children : HasLogged(q, "WriteToParentProcess"))

\* C20 witness: in a run of two workers that began with the upload
\* measurement, a worker has issued a download transfer.
C20_Witness ==
    \E p \in Children :
        /\ Cardinality(Children) = 2
        /\ RanUploadPhase(p)
        /\ keyPrefix[p] = ObjectDown
        /\ issued[p] # <<>>

\* The stream of transfer t of p has completed: onStreamComplete has invoked
\* the notification.
StreamCompleted(p, t) == notifier[p][t] = <<"onStreamComplete">>

\* C21 (as claimed): in MeasureHttpTransfer, once the owner is at its final
\* publish, the record of every transfer whose stream completed has been
\* flushed.
C21_FlushedBeforeFinalPublish ==
    \A p \in Issuers :
        (keyPrefix[p] = HttpDown /\ pc[p] = "published") =>
            \A t \in TransferIds :
                StreamCompleted(p, t) => record[p][t].flushes = 1

\* A completion notification of p is between its decrement (line 134) and
\* its increment (line 135).
MidNotification(p) == \E t \in TransferIds : xfer[p][t] = "decremented"

\* The issuing thread of p is between ++numInProgress (line 121) and the call
\* of the transfer function (line 149).
MidIssue(p) == pc[p] = "call"

\* The gate's counts that hold in every state: the completed count never
\* decreases and is at most the number of transfers issued so far, which is
\* at most N, and the in-flight count never wraps below 0.
CountsInRange ==
    /\ [][\A p \in Issuers : numCompleted'[p] >= numCompleted[p]]_vars
    /\ [](\A p \in Issuers :
            /\ numCompleted[p] <= Len(issued[p])
            /\ Len(issued[p]) <= numTransfers(p)
            /\ numInProgress[p] \in 0..numTransfers(p))

\* C22 (as claimed): the counts are in range, and whenever no notification is
\* part-way through its decrement/increment pair, in-flight + completed is
\* the number of transfers issued so far.
C22_CountersConsistent ==
    /\ CountsInRange
    /\ [](\A p \in Issuers :
            ~MidNotification(p) =>
                numInProgress[p] + numCompleted[p] = Len(issued[p]))

\* C22 (amended): the counts are in range, and whenever no notification is
\* part-way through its decrement/increment pair and the issuing thread is
\* not between its in-flight increment and the call of the transfer
\* function, in-flight + completed is the number of transfers issued so far.
C22_CountersConsistentOutsideIssue ==
    /\ CountsInRange
    /\ [](\A p \in Issuers :
            (~MidNotification(p) /\ ~MidIssue(p)) =>
                numInProgress[p] + numCompleted[p] = Len(issued[p]))

\* C22 witness: of three transfers issued, one has completed and two are in
\* flight, with no notification or issue part-way.
C22_Witness ==
    \E p \in Issuers :
        /\ ~MidNotification(p) /\ ~MidIssue(p)
        /\ Len(issued[p]) = 3
        /\ numCompleted[p] = 1
        /\ numInProgress[p] = 2

====
